---- MODULE Spec2Model ----
(***************************************************************************)
(* ts-reporter: a CI action that fetches the per-month merkle-tree reward  *)
(* files under HEAD:reports, regroups the claims by recipient and commits  *)
(* reports/merkle-trees-by-user.json on top of a named branch.             *)
(*                                                                         *)
(* Two pipelines are modelled, selected by `variant`:                      *)
(*   "single"  src/src/main.ts        (merkle-tree.json, claims)           *)
(*   "dual"    src/unnamed/part_000   (merkle-tree-veAUXO.json and         *)
(*                                     merkle-tree-xAUXO.json, recipients) *)
(*                                                                         *)
(* run() is one async function; its atomic steps are the stretches of      *)
(* synchronous code between two awaits.  pc names the remote call that is  *)
(* in flight.  The remote repository (objects, refs) is the environment.   *)
(***************************************************************************)
EXTENDS Integers, Sequences, FiniteSets, TLC

VARIABLES
    variant,             \* which pipeline runs: "single" | "dual"
    branchInput,         \* core.getInput('branch')
    objects,             \* the repository's object store; a sha is an index
    refs,                \* branch name -> commit sha
    pc,                  \* position of run()
    runs,                \* number of runs started so far
    merkleTrees,         \* QueryResult entries of the current run
    merkleTreesByMonth,  \* MonthlyIndex of the current run
    merkleTreesByUser,   \* UserIndex of the current run
    parsed,              \* <<month, file>> pairs handed to JSON.parse
    currentBranch,       \* getRef's data.object.sha
    createBlob,          \* createBlob's data.sha
    createTree,          \* createTree's data.sha
    createCommit,        \* createCommit's data.sha
    thrown,              \* the value caught by the top-level catch
    setFailed,           \* messages passed to core.setFailed in this run
    calls,               \* remote calls issued by this run, in order
    returned,            \* remote calls of this run that returned a result
    created,             \* shas of the objects this run created
    published,           \* number of runs that moved the branch so far
    preTip,              \* tip of the target branch when the run started
    otherCommits,        \* commits pushed by the other writer so far
    otherActed           \* the other writer pushed during the current run

vars == <<variant, branchInput, objects, refs, pc, runs, merkleTrees,
          merkleTreesByMonth, merkleTreesByUser, parsed, currentBranch,
          createBlob, createTree, createCommit, thrown, setFailed, calls,
          returned, created, published, preTip, otherCommits, otherActed>>

----------------------------------------------------------------------------
(* Bounds *)

MaxFiles == 2       \* files under reports/ in the data specification
MaxRuns == 2        \* consecutive runs in the protocol specification
MaxOther == 1       \* commits pushed by the other writer

Months == {"2021-01", "2021-02"}
Users == {"0xAAA", "0xBBB"}

----------------------------------------------------------------------------
(* Literals of the source *)

SingleFile == "merkle-tree.json"
VeFile == "merkle-tree-veAUXO.json"
XFile == "merkle-tree-xAUXO.json"
OtherFile == "notes.txt"
ArtifactName == "merkle-trees-by-user.json"
CommitMessage == "**GENERATED** Arrange Rewards by User"

FileNames == {SingleFile, VeFile, XFile, OtherFile}

\* git orders the entries of a tree by name; the query returns them so
TopOrder == <<"2021-01", "2021-02", ArtifactName>>
FileOrder == <<VeFile, XFile, SingleFile, OtherFile>>
TokenOrder == <<"veAUXO", "xAUXO">>

----------------------------------------------------------------------------
(* Values *)

\* A claim / recipient payload: opaque to the reshape
Payload1 ==
    [accountIndex |-> 0, windowIndex |-> 0, amount |-> "100",
     reason |-> "x", proof |-> <<"0x00">>]
Payload2 ==
    [accountIndex |-> 1, windowIndex |-> 0, amount |-> "25000000000000000000",
     reason |-> "y", proof |-> <<"0x01", "0x02">>]
Payloads == {Payload1, Payload2}

Empty == <<>>       \* the JS object {} : a mapping with no key

ClaimMaps == UNION { [S -> Payloads] : S \in SUBSET Users }
DualMaps == [{"0xAAA"} -> Payloads]

\* A blob's text is either not JSON at all, or the JSON document of a value.
\* A reward-file document holds its address map under the key `claims`
\* (single schema) or `recipients` (dual schema).
Malformed == [kind |-> "malformed"]
JsonText(v) == [kind |-> "json", value |-> v]
RewardDoc(key, m) == [key |-> key, map |-> m]

\* the texts a file of the given name is drawn from
Texts(name) ==
    {Malformed} \cup
    CASE name = SingleFile ->
             { JsonText(RewardDoc("claims", m)) : m \in ClaimMaps }
               \cup { JsonText(RewardDoc("recipients", m)) : m \in [{"0xAAA"} -> {Payload1}] }
      [] name \in {VeFile, XFile} ->
             { JsonText(RewardDoc("recipients", m)) : m \in DualMaps }
      [] OTHER ->
             { JsonText(RewardDoc("claims", m)) : m \in [{"0xAAA"} -> {Payload1}] }

SmallTexts(name) ==
    { Malformed,
      JsonText(RewardDoc("claims", [u \in {"0xAAA"} |-> Payload1])) }

\* doc[key] is undefined unless the document holds its map under that key
HasField(doc, key) == doc.key = key

\* Thrown values
TypeError == [isError |-> TRUE, message |-> "TypeError"]
SyntaxError == [isError |-> TRUE, message |-> "SyntaxError"]
InputError == [isError |-> TRUE, message |-> "Input required and not supplied"]
HttpError == [isError |-> TRUE, message |-> "HttpError"]
NotFound == [isError |-> TRUE, message |-> "Not Found"]
NotFastForward == [isError |-> TRUE, message |-> "Update is not a fast forward"]
NonError == [isError |-> FALSE, message |-> ""]
NoThrow == [isError |-> FALSE, message |-> "none"]

RemoteThrows == {HttpError, NonError}

----------------------------------------------------------------------------
(* Helpers for JS objects and arrays *)

\* obj[k] = v
Put(obj, k, v) == [x \in (DOMAIN obj) \cup {k} |-> IF x = k THEN v ELSE obj[x]]

\* the keys of obj in the order `order` lists them (Object.entries order)
Keys(obj, order) == SelectSeq(order, LAMBDA k : k \in DOMAIN obj)

UserOrder == <<"0xAAA", "0xBBB">>

----------------------------------------------------------------------------
(* The repository tree and the GraphQL query *)

\* A root tree: [readme |-> n, reports |-> top-level name -> entry]; an entry
\* of reports/ is a month directory [type |-> "tree", entries |-> name -> text]
\* or a file [type |-> "blob", text |-> text].
DirEntry(files) == [type |-> "tree", entries |-> files]
BlobEntry(text) == [type |-> "blob", text |-> text]

\* entries { name object { ... on Blob { text } } } of one month directory
QueryFiles(files) ==
    LET names == Keys(files, FileOrder)
    IN  [i \in 1..Len(names) |-> [name |-> names[i], text |-> files[names[i]]]]

\* object(expression: "HEAD:reports") { ... on Tree { entries { name type
\* object { ... on Tree { entries ... } } } } }: for an entry that is not a
\* Tree the inner fragment selects nothing and `object` is {} (no `entries`).
Query(tree) ==
    LET names == Keys(tree.reports, TopOrder)
    IN  [i \in 1..Len(names) |->
            LET e == tree.reports[names[i]]
            IN  [name |-> names[i],
                 type |-> e.type,
                 hasEntries |-> e.type = "tree",
                 entries |-> IF e.type = "tree" THEN QueryFiles(e.entries)
                             ELSE <<>>]]

----------------------------------------------------------------------------
(* Month index builder.  The state threaded through the loops is           *)
(* [idx, parsed, err]: the index so far, the files handed to JSON.parse,   *)
(* and the value thrown (NoThrow while nothing was thrown).                *)

IndexStart == [idx |-> Empty, parsed |-> {}, err |-> NoThrow]

\* el.name === 'merkle-tree.json': JSON.parse, then merkleTreesByMonth[date] = ...
StoreSingle(st, date, el) ==
    LET st1 == [st EXCEPT !.parsed = @ \cup {<<date, el.name>>}]
    IN  IF el.text.kind # "json"
        THEN [st1 EXCEPT !.err = SyntaxError]
        ELSE [st1 EXCEPT !.idx = Put(@, date, el.text.value)]

\* el.name === 'merkle-tree-<token>.json': JSON.parse, then
\* merkleTreesByMonth[date][token] = ...; merkleTreesByMonth[date] is read
\* first and nothing ever creates it
StoreDual(st, date, token, el) ==
    LET st1 == [st EXCEPT !.parsed = @ \cup {<<date, el.name>>}]
    IN  IF el.text.kind # "json"
        THEN [st1 EXCEPT !.err = SyntaxError]
        ELSE IF date \notin DOMAIN st1.idx
        THEN [st1 EXCEPT !.err = TypeError]
        ELSE [st1 EXCEPT !.idx = Put(@, date, Put(st1.idx[date], token, el.text.value))]

\* a reader that parses every file of the month directory
FileSingle_AnyName(st, date, el) == StoreSingle(st, date, el)

FileSingle(st, date, el) ==
    IF el.name = SingleFile THEN StoreSingle(st, date, el) ELSE st

FileDual(st, date, el) ==
    LET a == IF el.name = VeFile THEN StoreDual(st, date, "veAUXO", el) ELSE st
    IN  IF a.err # NoThrow THEN a
        ELSE IF el.name = XFile THEN StoreDual(a, date, "xAUXO", el) ELSE a

\* entry.object.entries.map(el => ...)
RECURSIVE MapFiles(_, _, _, _)
MapFiles(v, st, date, els) ==
    IF st.err # NoThrow \/ els = <<>> THEN st
    ELSE MapFiles(v,
                  IF v = "single" THEN FileSingle(st, date, Head(els))
                                  ELSE FileDual(st, date, Head(els)),
                  date, Tail(els))

\* merkleTrees.repository.object.entries.map(entry => ...): reading
\* entry.object.entries.map of an entry without `entries` throws
RECURSIVE MapEntries(_, _, _)
MapEntries(v, st, es) ==
    IF st.err # NoThrow \/ es = <<>> THEN st
    ELSE LET entry == Head(es)
         IN  IF ~entry.hasEntries
             THEN [st EXCEPT !.err = TypeError]
             ELSE MapEntries(v, MapFiles(v, st, entry.name, entry.entries), Tail(es))

BuildIndex(v, es) == MapEntries(v, IndexStart, es)

----------------------------------------------------------------------------
(* Reshape.  The state threaded through the loops is [out, err].           *)

ReshapeStart == [out |-> Empty, err |-> NoThrow]

\* if (!merkleTreesByUser[user]) merkleTreesByUser[user] = {}
Ensure(obj, k) == IF k \in DOMAIN obj THEN obj ELSE Put(obj, k, Empty)

\* a reshape that starts the recipient's mapping afresh for every claim
SetSingle_Reset(out, user, date, claim) ==
    Put(out, user, Put(Empty, date, claim))

\* merkleTreesByUser[user][date] = claim
SetSingle(out, user, date, claim) ==
    LET o1 == Ensure(out, user)
    IN  Put(o1, user, Put(o1[user], date, claim))

\* merkleTreesByUser[user][token][date] = recipient
SetDual(out, user, token, date, recipient) ==
    LET o1 == Ensure(out, user)
        o2 == Put(o1, user, Ensure(o1[user], token))
    IN  Put(o2, user, Put(o2[user], token, Put(o2[user][token], date, recipient)))

RECURSIVE UsersSingle(_, _, _, _)
UsersSingle(out, date, claims, us) ==
    IF us = <<>> THEN out
    ELSE UsersSingle(SetSingle(out, Head(us), date, claims[Head(us)]),
                     date, claims, Tail(us))

RECURSIVE UsersDual(_, _, _, _, _)
UsersDual(out, date, token, recipients, us) ==
    IF us = <<>> THEN out
    ELSE UsersDual(SetDual(out, Head(us), token, date, recipients[Head(us)]),
                   date, token, recipients, Tail(us))

\* for (const [date, merkleTree] of Object.entries(merkleTreesByMonth))
\*   for (const [user, claim] of Object.entries(merkleTree.claims))
RECURSIVE ReshapeSingle(_, _, _)
ReshapeSingle(st, idx, dates) ==
    IF st.err # NoThrow \/ dates = <<>> THEN st
    ELSE LET date == Head(dates)
             merkleTree == idx[date]
         IN  IF ~HasField(merkleTree, "claims")
             THEN [st EXCEPT !.err = TypeError]
             ELSE ReshapeSingle(
                    [st EXCEPT !.out = UsersSingle(@, date, merkleTree.map,
                                                   Keys(merkleTree.map, UserOrder))],
                    idx, Tail(dates))

\* for (const [token, merkleTree] of Object.entries(merkleTreesByToken))
\*   for (const [user, recipient] of Object.entries(merkleTree.recipients))
RECURSIVE TokensDual(_, _, _, _)
TokensDual(st, date, byToken, tokens) ==
    IF st.err # NoThrow \/ tokens = <<>> THEN st
    ELSE LET token == Head(tokens)
             merkleTree == byToken[token]
         IN  IF ~HasField(merkleTree, "recipients")
             THEN [st EXCEPT !.err = TypeError]
             ELSE TokensDual(
                    [st EXCEPT !.out = UsersDual(@, date, token, merkleTree.map,
                                                 Keys(merkleTree.map, UserOrder))],
                    date, byToken, Tail(tokens))

RECURSIVE ReshapeDual(_, _, _)
ReshapeDual(st, idx, dates) ==
    IF st.err # NoThrow \/ dates = <<>> THEN st
    ELSE ReshapeDual(TokensDual(st, Head(dates), idx[Head(dates)],
                                Keys(idx[Head(dates)], TokenOrder)),
                     idx, Tail(dates))

\* a reshape that reads the first month of the index unconditionally
Reshape_FirstMonth(v, idx) ==
    IF Keys(idx, TopOrder) = <<>> THEN [out |-> Empty, err |-> TypeError]
    ELSE IF v = "single" THEN ReshapeSingle(ReshapeStart, idx, Keys(idx, TopOrder))
    ELSE ReshapeDual(ReshapeStart, idx, Keys(idx, TopOrder))

Reshape(v, idx) ==
    IF v = "single" THEN ReshapeSingle(ReshapeStart, idx, Keys(idx, TopOrder))
                    ELSE ReshapeDual(ReshapeStart, idx, Keys(idx, TopOrder))

\* JSON.stringify(value, null, 2): the JSON document of the value
JSONstringify(value) == JsonText(value)

----------------------------------------------------------------------------
(* The repository: content objects and branch references *)

Branches == {"main", "side"}     \* HEAD names "main"
BranchInputs == {"main", "side", "missing"}

BlobObj(content) == [type |-> "blob", content |-> content]
TreeObj(tree) == [type |-> "tree", tree |-> tree]
CommitObj(tree, parents, message) ==
    [type |-> "commit", tree |-> tree, parents |-> parents, message |-> message]

\* the root tree a sha names; a commit sha is peeled to the commit's tree
TreeOf(objs, sha) ==
    IF objs[sha].type = "commit" THEN objs[objs[sha].tree].tree
    ELSE objs[sha].tree

\* a is b or an ancestor of b
RECURSIVE IsAncestor(_, _, _)
IsAncestor(objs, a, b) ==
    \/ a = b
    \/ /\ objs[b].parents # <<>>
       /\ IsAncestor(objs, a, objs[b].parents[1])

Tip(r, b) == IF b \in DOMAIN r THEN r[b] ELSE 0

\* HEAD:reports is read from the branch HEAD names
HeadTree == TreeOf(objects, refs["main"])

\* a createTree call sent without base_tree: the new tree holds the one file
ServerCreateTree_NoBase(objs, base, blobSha) ==
    [readme |-> 0,
     reports |-> Put(Empty, ArtifactName, BlobEntry(objs[blobSha].content))]

\* createTree({tree: [{path: 'reports/merkle-trees-by-user.json', mode,
\* type: 'blob', sha}], base_tree}): the base's tree with that one path set
ServerCreateTree(objs, base, blobSha) ==
    LET t == TreeOf(objs, base)
    IN  [t EXCEPT !.reports = Put(@, ArtifactName, BlobEntry(objs[blobSha].content))]

\* an updateRef call sent with force: true
ServerUpdateRefOk_Force(objs, r, b, sha) == b \in DOMAIN r

\* updateRef({ref, sha}) sends no `force`, so the server moves the ref only
\* when the new commit descends from the ref's current commit
ServerUpdateRefOk(objs, r, b, sha) ==
    /\ b \in DOMAIN r
    /\ IsAncestor(objs, r[b], sha)

----------------------------------------------------------------------------
(* Initial states *)

Slots == Months \X FileNames

\* the reports/ trees that hold at most k files with texts from `texts`
ReportsOf(S, f) ==
    [m \in {s[1] : s \in S} |->
        DirEntry([n \in {s[2] : s \in {x \in S : x[1] = m}} |-> f[<<m, n>>]])]

AllTexts == UNION { Texts(n) : n \in FileNames }

\* texts: file name -> the set of texts a file of that name may hold
TreesWith(k, texts) ==
    UNION { { [readme |-> 0, reports |-> ReportsOf(S, f)] :
                f \in {g \in [S -> AllTexts] : \A s \in S : g[s] \in texts[s[2]]} }
            : S \in {X \in SUBSET Slots : Cardinality(X) <= k} }

InitWith(trees) ==
    /\ variant \in {"single", "dual"}
    /\ branchInput \in BranchInputs
    /\ \E t \in trees :
          objects = <<TreeObj(t), CommitObj(1, <<>>, "initial")>>
    /\ refs = [b \in Branches |-> 2]
    /\ pc = "idle"
    /\ runs = 0
    /\ merkleTrees = <<>>
    /\ merkleTreesByMonth = Empty
    /\ merkleTreesByUser = Empty
    /\ parsed = {}
    /\ currentBranch = 0
    /\ createBlob = 0
    /\ createTree = 0
    /\ createCommit = 0
    /\ thrown = NoThrow
    /\ setFailed = <<>>
    /\ calls = <<>>
    /\ returned = <<>>
    /\ created = <<>>
    /\ published = 0
    /\ preTip = 0
    /\ otherCommits = 0
    /\ otherActed = FALSE

Init == InitWith(TreesWith(1, [n \in FileNames |-> SmallTexts(n)]))
InitData ==
    /\ InitWith(TreesWith(MaxFiles, [n \in FileNames |-> Texts(n)]))
    /\ branchInput = "main"

----------------------------------------------------------------------------
(* run() *)

config == <<variant, branchInput>>
repo == <<objects, refs>>
fetched == <<merkleTrees, merkleTreesByMonth, merkleTreesByUser, parsed>>
shas == <<currentBranch, createBlob, createTree, createCommit>>
other == <<otherCommits, otherActed>>

\* the remote calls of run(), in program order
Order == <<"graphql", "getRef", "createBlob", "createTree", "createCommit",
           "updateRef">>
RemotePcs == {Order[i] : i \in 1..Len(Order)}

\* } catch (error) { if (error instanceof Error) core.setFailed(error.message) }
Catch(error) ==
    /\ pc' = "caught"
    /\ thrown' = error
    /\ setFailed' = IF error.isError THEN Append(setFailed, error.message)
                    ELSE setFailed

\* the awaited call returned; the next call is issued
Issue(next) ==
    /\ pc' = next
    /\ calls' = Append(calls, next)
    /\ returned' = Append(returned, pc)
    /\ UNCHANGED <<thrown, setFailed>>

\* run() is entered: the four core.getInput(..., {required: true}) either
\* throw or the query is sent
StartRun(limit) ==
    /\ pc \in {"idle", "done", "caught"}
    /\ runs < limit
    /\ runs' = runs + 1
    /\ merkleTrees' = <<>>
    /\ merkleTreesByMonth' = Empty
    /\ merkleTreesByUser' = Empty
    /\ parsed' = {}
    /\ currentBranch' = 0
    /\ createBlob' = 0
    /\ createTree' = 0
    /\ createCommit' = 0
    /\ returned' = <<>>
    /\ created' = <<>>
    /\ preTip' = Tip(refs, branchInput)
    /\ otherActed' = FALSE
    /\ \E inputsGiven \in BOOLEAN :
          IF inputsGiven
          THEN /\ pc' = "graphql"
               /\ calls' = <<"graphql">>
               /\ thrown' = NoThrow
               /\ setFailed' = <<>>
          ELSE /\ calls' = <<>>
               /\ pc' = "caught"
               /\ thrown' = InputError
               /\ setFailed' = <<InputError.message>>
    /\ UNCHANGED <<config, repo, published, otherCommits>>

\* the query returned: build the month index, reshape, send getRef
Graphql ==
    /\ pc = "graphql"
    /\ LET es == Query(HeadTree)
           ix == BuildIndex(variant, es)
           rs == Reshape(variant, ix.idx)
       IN  /\ merkleTrees' = es
           /\ merkleTreesByMonth' = ix.idx
           /\ parsed' = ix.parsed
           /\ IF ix.err # NoThrow
              THEN /\ merkleTreesByUser' = Empty
                   /\ Catch(ix.err)
                   /\ returned' = Append(returned, pc)
                   /\ UNCHANGED calls
              ELSE /\ merkleTreesByUser' = rs.out
                   /\ IF rs.err # NoThrow
                      THEN /\ Catch(rs.err)
                           /\ returned' = Append(returned, pc)
                           /\ UNCHANGED calls
                      ELSE Issue("getRef")
    /\ UNCHANGED <<config, repo, runs, shas, created, published, preTip, other>>

\* getRef({ref: `heads/${branchInput}`}) returned, or 404 for a missing branch
GetRef ==
    /\ pc = "getRef"
    /\ IF branchInput \in DOMAIN refs
       THEN /\ currentBranch' = refs[branchInput]
            /\ Issue("createBlob")
       ELSE /\ Catch(NotFound)
            /\ UNCHANGED <<currentBranch, calls, returned>>
    /\ UNCHANGED <<config, repo, runs, fetched, createBlob, createTree,
                   createCommit, created, published, preTip, other>>

CreateBlob ==
    /\ pc = "createBlob"
    /\ objects' = Append(objects, BlobObj(JSONstringify(merkleTreesByUser)))
    /\ createBlob' = Len(objects')
    /\ created' = Append(created, createBlob')
    /\ Issue("createTree")
    /\ UNCHANGED <<config, refs, runs, fetched, currentBranch, createTree,
                   createCommit, published, preTip, other>>

CreateTree ==
    /\ pc = "createTree"
    /\ objects' = Append(objects,
                         TreeObj(ServerCreateTree(objects, currentBranch, createBlob)))
    /\ createTree' = Len(objects')
    /\ created' = Append(created, createTree')
    /\ Issue("createCommit")
    /\ UNCHANGED <<config, refs, runs, fetched, currentBranch, createBlob,
                   createCommit, published, preTip, other>>

\* a commit call that also moves the branch, before update-ref is sent
CreateCommit_MovesRef ==
    /\ pc = "createCommit"
    /\ objects' = Append(objects,
                         CommitObj(createTree, <<currentBranch>>, CommitMessage))
    /\ createCommit' = Len(objects')
    /\ created' = Append(created, createCommit')
    /\ refs' = [refs EXCEPT ![branchInput] = createCommit']
    /\ Issue("updateRef")
    /\ UNCHANGED <<config, runs, fetched, currentBranch, createBlob,
                   createTree, published, preTip, other>>

CreateCommit ==
    /\ pc = "createCommit"
    /\ objects' = Append(objects,
                         CommitObj(createTree, <<currentBranch>>, CommitMessage))
    /\ createCommit' = Len(objects')
    /\ created' = Append(created, createCommit')
    /\ Issue("updateRef")
    /\ UNCHANGED <<config, refs, runs, fetched, currentBranch, createBlob,
                   createTree, published, preTip, other>>

UpdateRef ==
    /\ pc = "updateRef"
    /\ IF ServerUpdateRefOk(objects, refs, branchInput, createCommit)
       THEN /\ refs' = [refs EXCEPT ![branchInput] = createCommit]
            /\ pc' = "done"
            /\ published' = published + 1
            /\ returned' = Append(returned, pc)
            /\ UNCHANGED <<thrown, setFailed>>
       ELSE /\ Catch(NotFastForward)
            /\ UNCHANGED <<refs, returned, published>>
    /\ UNCHANGED <<config, objects, runs, fetched, shas, calls, created,
                   preTip, other>>

\* a rejected call whose error is swallowed: the run goes on to the next call
RemoteFail_Continues ==
    /\ pc \in RemotePcs \ {"updateRef"}
    /\ \E i \in 1..5 :
          /\ Order[i] = pc
          /\ pc' = Order[i + 1]
          /\ calls' = Append(calls, Order[i + 1])
    /\ UNCHANGED <<config, repo, runs, fetched, shas, thrown, setFailed,
                   returned, created, published, preTip, other>>

\* the call in flight is rejected (transport, authorization, server error)
RemoteFail ==
    /\ pc \in RemotePcs
    /\ \E error \in RemoteThrows : Catch(error)
    /\ UNCHANGED <<config, repo, runs, fetched, shas, calls, returned, created,
                   published, preTip, other>>

\* another writer pushes a commit onto the target branch
OtherWriter ==
    /\ pc # "idle"
    /\ branchInput \in DOMAIN refs
    /\ otherCommits < MaxOther
    /\ LET tip == refs[branchInput]
           t == TreeOf(objects, tip)
           n == Len(objects)
       IN  /\ objects' = objects \o
                 << TreeObj([t EXCEPT !.readme = @ + 1]),
                    CommitObj(n + 1, <<tip>>, "other") >>
           /\ refs' = [refs EXCEPT ![branchInput] = n + 2]
    /\ otherCommits' = otherCommits + 1
    /\ otherActed' = TRUE
    /\ UNCHANGED <<config, pc, runs, fetched, shas, thrown, setFailed, calls,
                   returned, created, published, preTip>>

Next ==
    \/ StartRun(MaxRuns)
    \/ Graphql
    \/ GetRef
    \/ CreateBlob
    \/ CreateTree
    \/ CreateCommit
    \/ UpdateRef
    \/ RemoteFail
    \/ OtherWriter

Spec == Init /\ [][Next]_vars

\* one run over the larger input trees, every remote call succeeding
NextData ==
    \/ StartRun(1)
    \/ Graphql
    \/ GetRef
    \/ CreateBlob
    \/ CreateTree
    \/ CreateCommit
    \/ UpdateRef

SpecData == InitData /\ [][NextData]_vars

----------------------------------------------------------------------------
(* Vocabulary of the properties *)

IsPrefix(a, b) == Len(a) <= Len(b) /\ a = SubSeq(b, 1, Len(a))
Elems(q) == {q[i] : i \in 1..Len(q)}

\* the query of the current run has returned
Fetched == "graphql" \in Elems(returned)

\* the whole synchronous stage ran: the UserIndex is built
Reshaped == "getRef" \in Elems(calls)

Recognized(v) == IF v = "single" THEN {SingleFile} ELSE {VeFile, XFile}

\* the files of month m in the tree the query read
FilesOf(m) ==
    IF m \in DOMAIN HeadTree.reports /\ HeadTree.reports[m].type = "tree"
    THEN HeadTree.reports[m].entries ELSE Empty

\* the sum of the values of a function
RECURSIVE SumFn(_)
SumFn(f) ==
    IF DOMAIN f = {} THEN 0
    ELSE LET x == CHOOSE y \in DOMAIN f : TRUE
         IN  f[x] + SumFn([y \in (DOMAIN f) \ {x} |-> f[y]])

InputClaimCount ==
    SumFn([m \in DOMAIN merkleTreesByMonth |->
              Cardinality(DOMAIN merkleTreesByMonth[m].map)])

OutputClaimCount ==
    SumFn([u \in DOMAIN merkleTreesByUser |->
              Cardinality(DOMAIN merkleTreesByUser[u])])

----------------------------------------------------------------------------
(* C1: single-schema reshape is an exact pivot.  Once the UserIndex is     *)
(* built, it has an entry at [u][m] exactly when the RewardFile of month m *)
(* has a claim for u, the entry is that claim unchanged, no other key      *)
(* exists at either level, and input and output hold the same number of    *)
(* claims.                                                                 *)
C1_ExactPivot ==
    (variant = "single" /\ Reshaped) =>
        /\ DOMAIN merkleTreesByUser \subseteq Users
        /\ \A u \in DOMAIN merkleTreesByUser :
              /\ DOMAIN merkleTreesByUser[u] # {}
              /\ DOMAIN merkleTreesByUser[u] \subseteq DOMAIN merkleTreesByMonth
        /\ \A u \in Users, m \in Months :
              LET inOut == /\ u \in DOMAIN merkleTreesByUser
                           /\ m \in DOMAIN merkleTreesByUser[u]
                  inIn == /\ m \in DOMAIN merkleTreesByMonth
                          /\ u \in DOMAIN merkleTreesByMonth[m].map
              IN  /\ inOut <=> inIn
                  /\ inOut => merkleTreesByUser[u][m] = merkleTreesByMonth[m].map[u]
        /\ InputClaimCount = OutputClaimCount

\* a recipient with different claims in two months, next to a recipient
\* with a claim in one month only
C1_Witness ==
    /\ variant = "single"
    /\ Reshaped
    /\ \E u \in DOMAIN merkleTreesByUser :
          /\ DOMAIN merkleTreesByUser[u] = Months
          /\ merkleTreesByUser[u]["2021-01"] # merkleTreesByUser[u]["2021-02"]
    /\ \E u \in DOMAIN merkleTreesByUser :
          Cardinality(DOMAIN merkleTreesByUser[u]) = 1

\* month m holds both token files, each a reward document
BothFiles(m) ==
    /\ {VeFile, XFile} \subseteq DOMAIN FilesOf(m)
    /\ \A n \in {VeFile, XFile} :
          /\ FilesOf(m)[n].kind = "json"
          /\ HasField(FilesOf(m)[n].value, "recipients")

(* C2: dual-schema pipeline.  When month m of the fetched tree holds both  *)
(* merkle-tree-veAUXO.json and merkle-tree-xAUXO.json (both reward files), *)
(* then after the query returned each file sits in the MonthlyIndex under  *)
(* [m][veAUXO] and [m][xAUXO], and every recipient of both files is in the *)
(* UserIndex under both token keys for m, each with its own claim.         *)
C2_DualBothTokens ==
    \A m \in Months :
        (variant = "dual" /\ Fetched /\ BothFiles(m)
           /\ \A k \in Months \ {m} : FilesOf(k) = Empty) =>
            /\ m \in DOMAIN merkleTreesByMonth
            /\ DOMAIN merkleTreesByMonth[m] = {"veAUXO", "xAUXO"}
            /\ merkleTreesByMonth[m]["veAUXO"] = FilesOf(m)[VeFile].value
            /\ merkleTreesByMonth[m]["xAUXO"] = FilesOf(m)[XFile].value
            /\ \A u \in (DOMAIN FilesOf(m)[VeFile].value.map)
                          \cap (DOMAIN FilesOf(m)[XFile].value.map) :
                  /\ u \in DOMAIN merkleTreesByUser
                  /\ {"veAUXO", "xAUXO"} \subseteq DOMAIN merkleTreesByUser[u]
                  /\ merkleTreesByUser[u]["veAUXO"][m] = FilesOf(m)[VeFile].value.map[u]
                  /\ merkleTreesByUser[u]["xAUXO"][m] = FilesOf(m)[XFile].value.map[u]

\* month m holds a file the running pipeline reads
HasRecognized(m) == (DOMAIN FilesOf(m)) \cap Recognized(variant) # {}

(* C7: month-index filtering, both pipelines.  Only files with a           *)
(* recognized name are handed to JSON.parse; a month without a recognized  *)
(* file has no key in the MonthlyIndex; and when no month holds a          *)
(* recognized file nothing is thrown, the index is empty and the run goes  *)
(* on to publish.                                                          *)
C7_Filtering ==
    Fetched =>
        /\ \A f \in parsed : f[2] \in Recognized(variant)
        /\ \A m \in Months : ~HasRecognized(m) => m \notin DOMAIN merkleTreesByMonth
        /\ (/\ \A m \in Months : ~HasRecognized(m)
            /\ \A i \in 1..Len(merkleTrees) : merkleTrees[i].type = "tree") =>
              /\ thrown = NoThrow
              /\ merkleTreesByMonth = Empty
              /\ parsed = {}
              /\ Reshaped

\* a published run over month directories that hold unrecognized files
\* only, one of them not even JSON
C7_Witness ==
    /\ pc = "done"
    /\ \A m \in Months : FilesOf(m) # Empty /\ ~HasRecognized(m)
    /\ \E m \in Months : \E n \in DOMAIN FilesOf(m) : FilesOf(m)[n] = Malformed
    /\ merkleTreesByMonth = Empty

(* C8: empty input.  When the query returns zero entries the MonthlyIndex  *)
(* and the UserIndex are empty, the run does not fail, the blob holds the  *)
(* serialization of {} and the finished run's commit has that blob at      *)
(* reports/merkle-trees-by-user.json.                                      *)
C8_EmptyInput ==
    (Fetched /\ merkleTrees = <<>>) =>
        /\ merkleTreesByMonth = Empty
        /\ merkleTreesByUser = Empty
        /\ pc # "caught"
        /\ createBlob # 0 => objects[createBlob].content = JsonText(Empty)
        /\ pc = "done" =>
              /\ returned = Order
              /\ refs[branchInput] = createCommit
              /\ TreeOf(objects, createCommit).reports[ArtifactName]
                    = BlobEntry(JsonText(Empty))

C8_Witness ==
    /\ pc = "done"
    /\ merkleTrees = <<>>
    /\ variant = "dual"
    /\ TreeOf(objects, refs[branchInput]).reports[ArtifactName]
          = BlobEntry(JsonText(Empty))

----------------------------------------------------------------------------
(* C3: branch atomicity of a run.  While no other writer pushed during the *)
(* run, the target branch is at its pre-run tip in every state of the run  *)
(* except after all five publish calls returned; neither branch moves on a *)
(* failed run, whatever objects it created.                                *)
C3_BranchAtomicity ==
    (pc # "idle" /\ ~otherActed) =>
        \/ Tip(refs, branchInput) = preTip
        \/ /\ pc = "done"
           /\ returned = Order
           /\ refs[branchInput] = createCommit

\* update-ref was rejected: blob, tree and commit are orphaned, the branch
\* has not moved
C3_Witness ==
    /\ pc = "caught"
    /\ ~otherActed
    /\ Len(created) = 3
    /\ calls = Order
    /\ refs[branchInput] = preTip
    /\ preTip # 0

(* C4: publish ordering and abort.  The calls of a run are issued in the   *)
(* order get-ref, create-blob, create-tree, create-commit, update-ref,     *)
(* each after the previous one returned, at most one in flight; after a    *)
(* failed call nothing further is issued, and objects exist only for the   *)
(* create calls that returned.  A run whose get-ref failed created nothing *)
(* and issued no update-ref.                                               *)
C4_PublishOrder ==
    /\ IsPrefix(calls, Order)
    /\ IsPrefix(returned, calls)
    /\ Len(calls) - Len(returned) <= 1
    /\ pc \in RemotePcs => calls = Append(returned, pc)
    /\ pc = "done" => calls = Order /\ returned = Order
    /\ Len(created) = Cardinality(Elems(returned)
                                    \cap {"createBlob", "createTree", "createCommit"})
    /\ \A i \in 1..Len(created) :
          objects[created[i]].type = <<"blob", "tree", "commit">>[i]
    /\ (pc = "caught" /\ "getRef" \in Elems(calls) /\ "getRef" \notin Elems(returned)) =>
          /\ created = <<>>
          /\ "updateRef" \notin Elems(calls)

\* get-ref failed on a branch that does not exist
C4_Witness ==
    /\ pc = "caught"
    /\ branchInput = "missing"
    /\ thrown = NotFound
    /\ calls = <<"graphql", "getRef">>
    /\ created = <<>>

(* C5: failure reporting.  Whenever a run ends in the top-level catch the  *)
(* failure signal has been raised; it carries the message of a thrown      *)
(* Error.                                                                  *)
C5_FailureSignalled ==
    pc = "caught" =>
        /\ Len(setFailed) = 1
        /\ thrown.isError => setFailed = <<thrown.message>>

\* the number of generated commits in the history of a commit
RECURSIVE Generated(_, _)
Generated(objs, sha) ==
    (IF objs[sha].message = CommitMessage THEN 1 ELSE 0)
      + (IF objs[sha].parents = <<>> THEN 0 ELSE Generated(objs, objs[sha].parents[1]))

(* C6: repeated runs.  With the target branch the one HEAD names, a run    *)
(* made after an earlier run has published fails only when one of its      *)
(* remote calls or its configuration does, and the branch holds one        *)
(* generated commit per finished run.                                      *)
C6_RepeatedRuns ==
    (branchInput = "main" /\ published >= 1) =>
        /\ pc = "caught" =>
              thrown \in {HttpError, NonError, InputError, NotFastForward}
        /\ Generated(objects, refs["main"]) = published

(* C9: commit construction.  The commit of step 4 has the tip resolved by  *)
(* get-ref as its only parent, the fixed message, and the tree of that tip *)
(* with reports/merkle-trees-by-user.json set to the new blob and every    *)
(* other path as in that tip.                                              *)
C9_CommitConstruction ==
    createCommit # 0 =>
        LET c == objects[createCommit]
            t == TreeOf(objects, createCommit)
            b == TreeOf(objects, currentBranch)
        IN  /\ c.type = "commit"
            /\ c.parents = <<currentBranch>>
            /\ c.message = "**GENERATED** Arrange Rewards by User"
            /\ c.tree = createTree
            /\ t.readme = b.readme
            /\ DOMAIN t.reports = (DOMAIN b.reports) \cup {ArtifactName}
            /\ \A n \in (DOMAIN b.reports) \ {ArtifactName} :
                  t.reports[n] = b.reports[n]
            /\ t.reports[ArtifactName] = BlobEntry(objects[createBlob].content)
            /\ objects[createBlob].content = JsonText(merkleTreesByUser)

\* the branch moved after get-ref: the commit still descends from, and
\* keeps the files of, the tip that get-ref resolved
C9_Witness ==
    /\ pc = "updateRef"
    /\ createCommit # 0
    /\ refs[branchInput] # currentBranch
    /\ TreeOf(objects, refs[branchInput]).readme
          # TreeOf(objects, createCommit).readme
    /\ \E m \in Months : m \in DOMAIN TreeOf(objects, createCommit).reports

(* C10: concurrent branch update.  No step ever moves the target branch to *)
(* a commit that lacks the branch's current tip as an ancestor, and an     *)
(* update-ref answered while the branch is no longer at the tip get-ref    *)
(* resolved ends the run in the catch with the branch untouched.           *)
C10_FastForwardOnly ==
    [][ /\ branchInput \in DOMAIN refs =>
              IsAncestor(objects', refs[branchInput], refs'[branchInput])
        /\ (pc = "updateRef" /\ pc' # "updateRef"
               /\ refs[branchInput] # currentBranch) =>
              /\ pc' = "caught"
              /\ refs' = refs
      ]_vars

\* the other writer won the race and update-ref was rejected
C10_Witness ==
    /\ pc = "caught"
    /\ thrown = NotFastForward
    /\ setFailed = <<NotFastForward.message>>
    /\ otherActed
    /\ refs[branchInput] # createCommit
    /\ ~IsAncestor(objects, refs[branchInput], createCommit)

====
